---------------------------- MODULE Spec2Model ----------------------------
(***************************************************************************)
(* Name Resolution Cache of nolouch/alerts-dashboard                       *)
(* (backend/internal/services/name_service.go, second revision of the      *)
(* file, lines 290-711, and the TiDB connection set-up of package db).     *)
(*                                                                         *)
(* Go strings whose content the resolver inspects (identifiers, names) are *)
(* sequences of one-character strings; enumerations (record kind, error    *)
(* kind, audit reason, program counters) are TLA+ strings.  Time is        *)
(* counted in whole hours.                                                 *)
(***************************************************************************)
EXTENDS Integers, Sequences, FiniteSets, TLC

(***************************************************************************)
(* Bounds of the model and constants of the program                        *)
(***************************************************************************)

\* hours of clock readings modelled on each side of the positive TTL
Slack == 1

\* GetNameResolver: cacheTTL: 24 * time.Hour, notFoundTTL: 1 * time.Hour
cacheTTL == 24
notFoundTTL == 1

\* the clock readings of the model: the first hours and the hours around cacheTTL
Times == (0 .. Slack) \cup (cacheTTL .. (cacheTTL + Slack))

\* the callers (goroutines) of the resolver API
Callers == {"c1", "c2"}

(***************************************************************************)
(* Strings                                                                 *)
(***************************************************************************)

Digits == {"0", "1", "2", "3", "4", "5", "6", "7", "8", "9"}

Empty == << >>
Id7 == <<"7">>
Id42 == <<"4", "2">>
IdX == <<"x">>
Id7x == <<"7", "x">>

\* the identifiers callers pass to Resolve
InputIds == {Empty, Id7, Id42, IdX, Id7x}

NameA == <<"A">>
NameB == <<"B">>
NameT == <<"T">>

\* A character of a Go string is written as the string of that one
\* character when it is an ASCII character, and as "U+" followed by the four
\* hexadecimal digits of its code point when it is not ("U+00E9").
VerticalTab == ""
FormFeed == "\f"
NextLine == "U+0085"
NoBreakSpace == "U+00A0"
OghamSpaceMark == "U+1680"
IdeographicSpace == "U+3000"

\* the characters unicode.IsSpace accepts, which strings.TrimSpace strips:
\* '\t', '\n', '\v', '\f', '\r', ' ', U+0085, U+00A0, and the characters of
\* category Z above them
WhiteSpace ==
    {"\t", "\n", VerticalTab, FormFeed, "\r", " ", NextLine, NoBreakSpace,
     OghamSpaceMark,
     "U+2000", "U+2001", "U+2002", "U+2003", "U+2004", "U+2005", "U+2006",
     "U+2007", "U+2008", "U+2009", "U+200A",
     "U+2028", "U+2029", "U+202F", "U+205F", IdeographicSpace}

RECURSIVE TrimLeft(_)
TrimLeft(s) ==
    IF s # << >> /\ Head(s) \in WhiteSpace THEN TrimLeft(Tail(s)) ELSE s

RECURSIVE TrimRight(_)
TrimRight(s) ==
    IF s # << >> /\ s[Len(s)] \in WhiteSpace
    THEN TrimRight(SubSeq(s, 1, Len(s) - 1))
    ELSE s

TrimSpace(s) == TrimRight(TrimLeft(s))

\* strings.Join
RECURSIVE Join(_, _)
Join(elems, sep) ==
    IF elems = << >> THEN << >>
    ELSE IF Len(elems) = 1 THEN elems[1]
    ELSE elems[1] \o sep \o Join(Tail(elems), sep)

CommaSpace == <<",", " ">>

\* a bug: only the first character is looked at
isNumeric_FirstChar(s) ==
    /\ Len(s) > 0
    /\ s[1] \in Digits

\* name_service.go isNumeric: every character a decimal digit, and non-empty
isNumeric(s) ==
    /\ \A i \in 1 .. Len(s) : s[i] \in Digits
    /\ Len(s) > 0

NumericIds == {i \in InputIds : isNumeric(i)}

(***************************************************************************)
(* Records                                                                 *)
(***************************************************************************)

\* NameInfo{...}: fields not given are the empty string
NameInfo(type, id, name, tenantId, tenantName) ==
    [Type |-> type, ID |-> id, Name |-> name,
     TenantID |-> tenantId, TenantName |-> tenantName]

\* NameInfo{}
ZeroInfo == NameInfo("", Empty, Empty, Empty, Empty)

\* NameInfo{ID: id, Name: id}
SelfInfo(id) == NameInfo("", id, id, Empty, Empty)

\* cacheEntry{info, notFound, timestamp}
cacheEntry(info, notFound, timestamp) ==
    [info |-> info, notFound |-> notFound, timestamp |-> timestamp]

\* the error kinds of Resolve, by the text of the error the code builds
ErrNil == "nil"
ErrInvalidInput == "empty id"
ErrNotFoundCached == "ID not found (cached)"
ErrBackendUnavailable == "TiDB not connected"
ErrNotFound == "ID not found"

\* the audit reasons logMiss is called with
ReasonBackendUnavailable == "TiDB_not_connected"
ReasonNotFound == "not_found_in_database"


(***************************************************************************)
(* The lookup backend: the tables of the TiDB database and the five        *)
(* queries the resolver runs on them.  A table is a function from the ids  *)
(* that have a row to the row; premium_cluster_details is the sequence of  *)
(* its rows in creation order (oldest first).                              *)
(***************************************************************************)

ClusterRow(name, tenantId, tenantName, deployType) ==
    [cluster_name |-> name, tenant_id |-> tenantId,
     tenant_name |-> tenantName, deploy_type |-> deployType]

TenantRow(name) == [tenant_name |-> name]

PremiumRow(parentId, name) == [parent_id |-> parentId, name |-> name]

\* a nextgen-host cluster without a name, with premium details, in a tenant
Fixture1 ==
    [clusters |-> (Id7 :> ClusterRow(Empty, Id42, Empty, "nextgen-host")),
     tenants  |-> (Id42 :> TenantRow(NameT)),
     premium  |-> << PremiumRow(Id7, Empty), PremiumRow(Id7, NameA),
                     PremiumRow(Id42, NameT), PremiumRow(Id7, Id7),
                     PremiumRow(Id7, <<OghamSpaceMark, FormFeed>> \o NameB \o <<NoBreakSpace>>) >>]

\* an id that is both a named cluster and a tenant; 42 is unknown
Fixture2 ==
    [clusters |-> (Id7 :> ClusterRow(NameA, Id7, NameT, "nextgen-host")),
     tenants  |-> (Id7 :> TenantRow(NameT)),
     premium  |-> << PremiumRow(Id7, NameB) >>]

\* a dedicated cluster without a name; a nextgen-host cluster named by its id
\* whose premium details hold nothing usable
Fixture3 ==
    [clusters |-> (Id7 :> ClusterRow(Empty, Empty, Empty, "dedicated"))
                  @@ (Id42 :> ClusterRow(Id42, Empty, Empty, "nextgen-host")),
     tenants  |-> << >>,
     premium  |-> << PremiumRow(Id42, Id42),
                     PremiumRow(Id42, <<" ", VerticalTab, NextLine, IdeographicSpace>>) >>]

\* a nextgen-host cluster without a name and without premium details; a
\* dedicated cluster with a name of its own, and premium details under its id
Fixture4 ==
    [clusters |-> (Id7 :> ClusterRow(Empty, Empty, Empty, "nextgen-host"))
                  @@ (Id42 :> ClusterRow(NameB, Empty, Empty, "dedicated")),
     tenants  |-> << >>,
     premium  |-> << PremiumRow(Id42, NameA) >>]

Fixtures == {Fixture1, Fixture2, Fixture3, Fixture4}

\* the result of a query: err (an error other than sql.ErrNoRows), and the
\* rows returned, as a sequence
QueryError == [err |-> TRUE, rows |-> << >>]
QueryRows(rows) == [err |-> FALSE, rows |-> rows]

\* COALESCE(NULLIF(c.tenant_name, ''), t.tenant_name, '') of getCluster's query
CoalesceTenantName(t, row) ==
    IF row.tenant_name # Empty THEN row.tenant_name
    ELSE IF row.tenant_id \in DOMAIN t.tenants
         THEN t.tenants[row.tenant_id].tenant_name
         ELSE Empty

\* getCluster: the ClusterInfo of the row, no row (nil, nil), or an error
getCluster(t, conn, clusterID) ==
    IF ~conn THEN QueryError
    ELSE IF clusterID \notin DOMAIN t.clusters THEN QueryRows(<< >>)
    ELSE LET row == t.clusters[clusterID]
         IN  QueryRows(<< [ClusterID   |-> clusterID,
                           ClusterName |-> row.cluster_name,
                           TenantID    |-> row.tenant_id,
                           TenantName  |-> CoalesceTenantName(t, row),
                           DeployType  |-> row.deploy_type] >>)

\* getTenant: the TenantInfo of the row, no row (nil, nil), or an error
getTenant(t, conn, tenantID) ==
    IF ~conn THEN QueryError
    ELSE IF tenantID \notin DOMAIN t.tenants THEN QueryRows(<< >>)
    ELSE QueryRows(<< [TenantID   |-> tenantID,
                       TenantName |-> t.tenants[tenantID].tenant_name] >>)

\* getTenantName: the bare name; "" with no error when there is no row
getTenantName(t, conn, tenantID) ==
    IF ~conn THEN QueryError
    ELSE IF tenantID \notin DOMAIN t.tenants THEN QueryRows(<< Empty >>)
    ELSE QueryRows(<< t.tenants[tenantID].tenant_name >>)

\* getClusterName: the bare name; "" with no error when there is no row
getClusterName(t, conn, clusterID) ==
    IF ~conn THEN QueryError
    ELSE IF clusterID \notin DOMAIN t.clusters THEN QueryRows(<< Empty >>)
    ELSE QueryRows(<< t.clusters[clusterID].cluster_name >>)

Reverse(s) == [i \in 1 .. Len(s) |-> s[Len(s) + 1 - i]]

\* the result set of line 696:
\* SELECT name ... WHERE parent_id = ? AND name != '' ORDER BY created DESC
PremiumNames(t, parentID) ==
    LET Match(r) == r.parent_id = parentID /\ r.name # Empty
        hits == Reverse(SelectSeq(t.premium, Match))
    IN  [i \in 1 .. Len(hits) |-> hits[i].name]

\* getPremiumClusterNamesByParentID: an error when the query fails (697-699);
\* otherwise the names of the rows read until rows.Next() returns false
\* (703-709), with a nil error (710).  rows.Next() returns false after the
\* last row, and also when the next row cannot be read; rows.Err() is not
\* consulted, so read, the number of rows read, can be any number up to the
\* length of the result set.
getPremiumClusterNamesByParentID(t, conn, parentID, read) ==
    IF ~conn THEN QueryError
    ELSE QueryRows(SubSeq(PremiumNames(t, parentID), 1, read))

\* lines 446-455 of Resolve: the trimmed premium names that are neither empty
\* nor the id, joined with ", "; the stored name when none is left
RECURSIVE MeaningfulNames(_, _)
MeaningfulNames(premiumNames, id) ==
    IF premiumNames = << >> THEN << >>
    ELSE LET name == TrimSpace(Head(premiumNames))
             rest == MeaningfulNames(Tail(premiumNames), id)
         IN  IF name # Empty /\ name # id THEN <<name>> \o rest ELSE rest

PremiumClusterName(clusterName, premium, id) ==
    IF ~premium.err /\ Len(premium.rows) > 0
    THEN LET meaningfulNames == MeaningfulNames(premium.rows, id)
         IN  IF Len(meaningfulNames) > 0
             THEN Join(meaningfulNames, CommaSpace)
             ELSE clusterName
    ELSE clusterName

\* a bug: the premium details are consulted for every nextgen-host cluster,
\* whatever its name
NeedsPremium_AnyNextgen(clusterInfo, id) ==
    clusterInfo.DeployType = "nextgen-host"

\* line 444: the premium details are consulted for this cluster record
NeedsPremium(clusterInfo, id) ==
    /\ clusterInfo.DeployType = "nextgen-host"
    /\ (clusterInfo.ClusterName = Empty \/ clusterInfo.ClusterName = id)

\* lines 459-465: the record of a cluster found by getCluster
ClusterResult(clusterInfo, clusterName, id) ==
    NameInfo("cluster", id, clusterName, clusterInfo.TenantID, clusterInfo.TenantName)

(***************************************************************************)
(* The cache store                                                         *)
(***************************************************************************)

\* a bug: every entry is given the TTL of a miss
isEntryValid_MissTTL(entry, t) ==
    t - entry.timestamp < notFoundTTL

\* a bug: an entry is still valid at the hour its TTL has run out
isEntryValid_Inclusive(entry, t) ==
    LET ttl == IF entry.notFound THEN notFoundTTL ELSE cacheTTL
    IN  t - entry.timestamp <= ttl

\* a bug: a miss is given the TTL of a found record
isEntryValid_FoundTTL(entry, t) ==
    t - entry.timestamp < cacheTTL

\* isEntryValid, with time.Since(entry.timestamp) as t - entry.timestamp
isEntryValid(entry, t) ==
    LET ttl == IF entry.notFound THEN notFoundTTL ELSE cacheTTL
    IN  t - entry.timestamp < ttl

\* nr.cache[id] = entry
Put(m, id, entry) ==
    [k \in (DOMAIN m) \cup {id} |-> IF k = id THEN entry ELSE m[k]]

\* a bug: the sweep measures every entry against cacheTTL
CleanedCache_FoundTTL(m, t) ==
    [k \in {i \in DOMAIN m : t - m[i].timestamp < cacheTTL} |-> m[k]]

\* the map left by the loop of CleanExpiredCache
CleanedCache(m, t) ==
    [k \in {i \in DOMAIN m : isEntryValid(m[i], t)} |-> m[k]]

\* a bug: an expired positive entry is counted as found as well as expired
CacheStats_FoundIgnoresExpiry(m, t) ==
    [total     |-> Cardinality(DOMAIN m),
     found     |-> Cardinality({k \in DOMAIN m : ~m[k].notFound}),
     not_found |-> Cardinality({k \in DOMAIN m : isEntryValid(m[k], t) /\ m[k].notFound}),
     expired   |-> Cardinality({k \in DOMAIN m : ~isEntryValid(m[k], t)})]

\* the counters of GetCacheStats
CacheStats(m, t) ==
    [total     |-> Cardinality(DOMAIN m),
     found     |-> Cardinality({k \in DOMAIN m : isEntryValid(m[k], t) /\ ~m[k].notFound}),
     not_found |-> Cardinality({k \in DOMAIN m : isEntryValid(m[k], t) /\ m[k].notFound}),
     expired   |-> Cardinality({k \in DOMAIN m : ~isEntryValid(m[k], t)})]


\* the count CleanExpiredCache returns
CleanedCount(m, t) == Cardinality({k \in DOMAIN m : ~isEntryValid(m[k], t)})

(***************************************************************************)
(* State                                                                   *)
(***************************************************************************)

VARIABLES
    now,        \* the wall clock, in hours
    booted,     \* db.Init has run
    TiDB,       \* db.TiDB: "nil" or "open"
    connected,  \* the TiDB server answers (environment)
    tables,     \* the content of the TiDB database (environment)
    missLogger, \* nr.missLogger: "nil", "file" or "stderr"
    stalled,    \* the log sinks whose writes do not return (environment)
    stale,      \* history: the callers whose call had issued a query when a
                \* ClearCache was called
    cache,      \* nr.cache: a function from the cached ids to their cacheEntry
    readers,    \* nr.cacheMutex: the callers holding it in shared mode
    writer,     \* nr.cacheMutex: the caller holding it exclusively (at most one)
    pc,         \* the position of each caller; "off" for a caller that never calls
    call,       \* the call each caller is in: operation and identifier
    local,      \* Resolve's locals: clusterInfo, and the record it is about to store
    queries,    \* the backend queries the caller's current call has issued
    logged,     \* the audit records the caller's current call has appended
    ret         \* what the caller's last call returned

vars == <<now, booted, TiDB, connected, tables, missLogger, stalled, stale, cache,
          readers, writer, pc, call, local, queries, logged, ret>>

env == <<now, booted, TiDB, connected, tables, missLogger, stalled>>

NoLocal == [clusterInfo |-> << >>, result |-> ZeroInfo, notFound |-> FALSE]

ZeroStats == [total |-> 0, found |-> 0, not_found |-> 0, expired |-> 0]

Ret(info, err) == [info |-> info, err |-> err, count |-> 0, stats |-> ZeroStats]

NoRet == Ret(ZeroInfo, ErrNil)

NoCall == [op |-> "none", id |-> Empty]

\* a bug: when the miss log cannot be opened the resolver is left without
\* a miss logger
initMissLogger_NoFallback(openOk) == IF openOk THEN "file" ELSE "nil"

\* GetNameResolver: an empty cache and the two TTLs; initMissLogger opens the
\* miss log, and falls back to stderr when the file cannot be opened
initMissLogger(openOk) == IF openOk THEN "file" ELSE "stderr"

InitCommon ==
    /\ now = 0
    /\ booted = FALSE
    /\ TiDB = "nil"
    /\ connected \in BOOLEAN
    /\ tables \in Fixtures
    /\ \E openOk \in BOOLEAN : missLogger = initMissLogger(openOk)
    /\ stalled = {}
    /\ stale = {}
    /\ cache = << >>
    /\ readers = {}
    /\ writer = {}
    /\ call = [c \in Callers |-> NoCall]
    /\ local = [c \in Callers |-> NoLocal]
    /\ queries = [c \in Callers |-> << >>]
    /\ logged = [c \in Callers |-> << >>]
    /\ ret = [c \in Callers |-> NoRet]

\* one caller at a time uses the resolver
Init ==
    /\ InitCommon
    /\ pc = [c \in Callers |-> IF c = "c1" THEN "idle" ELSE "off"]

\* the callers use the resolver concurrently, over a backend in which
\* identifier 7 is a cluster named by its premium details and 42 a tenant,
\* or one in which 7 is both a cluster and a tenant and 42 is unknown
ConcInit ==
    /\ InitCommon
    /\ tables \in {Fixture1, Fixture2}
    /\ missLogger = initMissLogger(TRUE)
    /\ pc = [c \in Callers |-> "idle"]

(***************************************************************************)
(* The environment                                                         *)
(***************************************************************************)

\* time passes
Tick ==
    /\ \E t \in Times : t > now /\ now' = t
    /\ UNCHANGED <<booted, TiDB, connected, tables, missLogger, stalled, stale, cache, readers,
                   writer, pc, call, local, queries, logged, ret>>

\* db.Init calls InitTiDB once, before the server serves requests.  InitTiDB
\* returns before opening a handle when TIDB_DSN is empty or the TLS
\* configuration cannot be registered; db.TiDB is assigned the result of
\* sql.Open (nil when it fails) before the Ping, and is left as assigned
\* when the Ping fails.
InitTiDBResult(dsnSet, tlsOk, openOk, pingOk) ==
    IF ~dsnSet \/ ~tlsOk THEN "nil"
    ELSE IF ~openOk THEN "nil"
    ELSE IF ~pingOk THEN "open"
    ELSE "open"

InitTiDB ==
    /\ ~booted
    /\ booted' = TRUE
    /\ \E dsnSet \in BOOLEAN, tlsOk \in BOOLEAN, openOk \in BOOLEAN :
           TiDB' = InitTiDBResult(dsnSet, tlsOk, openOk, connected)
    /\ UNCHANGED <<now, connected, tables, missLogger, stalled, stale, cache, readers, writer,
                   pc, call, local, queries, logged, ret>>

\* the TiDB server becomes unreachable: every query fails until it is back
ConnectionLost ==
    /\ connected
    /\ connected' = FALSE
    /\ UNCHANGED <<now, booted, TiDB, tables, missLogger, stalled, stale, cache, readers, writer,
                   pc, call, local, queries, logged, ret>>

ConnectionRestored ==
    /\ ~connected
    /\ connected' = TRUE
    /\ UNCHANGED <<now, booted, TiDB, tables, missLogger, stalled, stale, cache, readers, writer,
                   pc, call, local, queries, logged, ret>>

\* a tenant is created in the backend under an id it did not know
BackendInsert ==
    /\ \E i \in NumericIds :
          /\ i \notin DOMAIN tables.clusters
          /\ i \notin DOMAIN tables.tenants
          /\ tables' = [tables EXCEPT !.tenants = (i :> TenantRow(NameT)) @@ tables.tenants]
    /\ UNCHANGED <<now, booted, TiDB, connected, missLogger, stalled, stale, cache, readers,
                   writer, pc, call, local, queries, logged, ret>>

\* the sinks the process writes log lines to: the miss log, and stderr, which
\* is where the standard logger writes and where the miss logger falls back to
Sinks == {"stderr", missLogger}

\* a sink stops taking writes (a full pipe, a hung file system): a write to
\* it does not return until the sink recovers
SinkStalls ==
    /\ \E s \in Sinks \ stalled : stalled' = stalled \cup {s}
    /\ UNCHANGED <<now, booted, TiDB, connected, tables, missLogger, stale, cache,
                   readers, writer, pc, call, local, queries, logged, ret>>

SinkRecovers ==
    /\ \E s \in stalled : stalled' = stalled \ {s}
    /\ UNCHANGED <<now, booted, TiDB, connected, tables, missLogger, stale, cache,
                   readers, writer, pc, call, local, queries, logged, ret>>

(***************************************************************************)
(* Resolve                                                                 *)
(***************************************************************************)

CanCall(c) == booted /\ pc[c] \in {"idle", "done"}

\* Printf of a logger returns when the write to its sink has returned (a
\* failed write is ignored by Printf, and looks the same to the caller)
PrintfReturns(logger) == logger = "nil" \/ logger \notin stalled

\* the standard logger of package log writes to stderr
StdLogger == "stderr"

\* a bug: the test of the logger is inverted, and no miss is recorded
logMiss_Inverted(log, logger, id, reason) ==
    IF logger = "nil"
    THEN Append(log, [id |-> id, reason |-> reason, sink |-> logger])
    ELSE log

\* logMiss: one line "ID=<id> reason=<reason>" to the miss logger, if there is one
logMiss(log, logger, id, reason) ==
    IF logger # "nil"
    THEN Append(log, [id |-> id, reason |-> reason, sink |-> logger])
    ELSE log

\* lines 414-420: the empty id is an error, a non-numeric id resolves to itself
ResolveEnter(c, i) ==
    /\ CanCall(c)
    /\ call' = [call EXCEPT ![c] = [op |-> "Resolve", id |-> i]]
    /\ local' = [local EXCEPT ![c] = NoLocal]
    /\ queries' = [queries EXCEPT ![c] = << >>]
    /\ logged' = [logged EXCEPT ![c] = << >>]
    /\ stale' = stale \ {c}
    /\ IF i = Empty
       THEN /\ pc' = [pc EXCEPT ![c] = "done"]
            /\ ret' = [ret EXCEPT ![c] = Ret(ZeroInfo, ErrInvalidInput)]
       ELSE IF ~isNumeric(i)
       THEN /\ pc' = [pc EXCEPT ![c] = "done"]
            /\ ret' = [ret EXCEPT ![c] = Ret(SelfInfo(i), ErrNil)]
       ELSE /\ pc' = [pc EXCEPT ![c] = "rlock"]
            /\ ret' = [ret EXCEPT ![c] = NoRet]
    /\ UNCHANGED <<now, booted, TiDB, connected, tables, missLogger, stalled, cache,
                   readers, writer>>

\* line 423: nr.cacheMutex.RLock()
ResolveRLock(c) ==
    /\ pc[c] = "rlock"
    /\ writer = {}
    /\ readers' = readers \cup {c}
    /\ pc' = [pc EXCEPT ![c] = "lookup"]
    /\ UNCHANGED <<now, booted, TiDB, connected, tables, missLogger, stalled, stale, cache,
                   writer, call, local, queries, logged, ret>>

\* lines 424-431: a valid entry is returned (a negative one as an error), and
\* the lock is released on either branch
LookupHit(m, id, t) == id \in DOMAIN m /\ isEntryValid(m[id], t)

\* a bug: a cached miss is returned as a fresh miss
LookupReturn_FreshMiss(entry, id) ==
    IF entry.notFound
    THEN Ret(SelfInfo(id), ErrNotFound)
    ELSE Ret(entry.info, ErrNil)

LookupReturn(entry, id) ==
    IF entry.notFound
    THEN Ret(SelfInfo(id), ErrNotFoundCached)
    ELSE Ret(entry.info, ErrNil)

\* a bug: the read path deletes the expired entry it finds
ResolveLookup_Evicts(c) ==
    /\ pc[c] = "lookup"
    /\ readers' = readers \ {c}
    /\ IF LookupHit(cache, call[c].id, now)
       THEN /\ ret' = [ret EXCEPT ![c] = LookupReturn(cache[call[c].id], call[c].id)]
            /\ pc' = [pc EXCEPT ![c] = "done"]
            /\ UNCHANGED cache
       ELSE /\ pc' = [pc EXCEPT ![c] = "checkDB"]
            /\ cache' = [k \in (DOMAIN cache) \ {call[c].id} |-> cache[k]]
            /\ UNCHANGED ret
    /\ UNCHANGED <<now, booted, TiDB, connected, tables, missLogger, stalled, stale,
                   writer, call, local, queries, logged>>

\* a bug: a Resolve that misses the cache keeps the read lock (the RUnlock
\* of the miss branch is missing), so it holds it during its queries
ResolveLookup_KeepsLock(c) ==
    /\ pc[c] = "lookup"
    /\ IF LookupHit(cache, call[c].id, now)
       THEN /\ ret' = [ret EXCEPT ![c] = LookupReturn(cache[call[c].id], call[c].id)]
            /\ pc' = [pc EXCEPT ![c] = "done"]
            /\ readers' = readers \ {c}
       ELSE /\ pc' = [pc EXCEPT ![c] = "checkDB"]
            /\ UNCHANGED <<ret, readers>>
    /\ UNCHANGED <<now, booted, TiDB, connected, tables, missLogger, stalled, stale, cache,
                   writer, call, local, queries, logged>>

ResolveLookup(c) ==
    /\ pc[c] = "lookup"
    /\ readers' = readers \ {c}
    /\ IF LookupHit(cache, call[c].id, now)
       THEN /\ ret' = [ret EXCEPT ![c] = LookupReturn(cache[call[c].id], call[c].id)]
            /\ pc' = [pc EXCEPT ![c] = "done"]
       ELSE /\ pc' = [pc EXCEPT ![c] = "checkDB"]
            /\ UNCHANGED ret
    /\ UNCHANGED <<now, booted, TiDB, connected, tables, missLogger, stalled, stale, cache,
                   writer, call, local, queries, logged>>

\* lines 433-437: without a TiDB handle the miss is logged and the call fails
ResolveCheckDB(c) ==
    /\ pc[c] = "checkDB"
    /\ IF TiDB = "nil"
       THEN /\ PrintfReturns(missLogger)
            /\ logged' = [logged EXCEPT ![c] =
                   logMiss(logged[c], missLogger, call[c].id, ReasonBackendUnavailable)]
            /\ ret' = [ret EXCEPT ![c] = Ret(SelfInfo(call[c].id), ErrBackendUnavailable)]
            /\ pc' = [pc EXCEPT ![c] = "done"]
       ELSE /\ pc' = [pc EXCEPT ![c] = "getCluster"]
            /\ UNCHANGED <<logged, ret>>
    /\ UNCHANGED <<now, booted, TiDB, connected, tables, missLogger, stalled, stale, cache,
                   readers, writer, call, local, queries>>

\* a step of the fallback chain found its record: it is stored next
FoundStep(loc, result) ==
    [pc |-> "lock", local |-> [loc EXCEPT !.result = result, !.notFound = FALSE]]

\* a bug: a cluster record with a name of its own does not end the chain
AfterGetCluster_FallThrough(loc, r, id) ==
    IF ~r.err /\ r.rows # << >> /\ NeedsPremium(r.rows[1], id)
    THEN [pc |-> "premium", local |-> [loc EXCEPT !.clusterInfo = r.rows]]
    ELSE [pc |-> "getTenant", local |-> loc]

\* a bug: a cluster record without a name counts as no record
AfterGetCluster_EmptyNameIsNone(loc, r, id) ==
    IF ~r.err /\ r.rows # << >> /\ r.rows[1].ClusterName # Empty
    THEN IF NeedsPremium(r.rows[1], id)
         THEN [pc |-> "premium", local |-> [loc EXCEPT !.clusterInfo = r.rows]]
         ELSE FoundStep([loc EXCEPT !.clusterInfo = r.rows],
                        ClusterResult(r.rows[1], r.rows[1].ClusterName, id))
    ELSE [pc |-> "getTenant", local |-> loc]

\* lines 439-444, 459-465: after getCluster; a cluster record without a
\* meaningful name on a nextgen-host goes to the premium details, any other
\* record is the result, no record or an error goes to the next step
AfterGetCluster(loc, r, id) ==
    IF ~r.err /\ r.rows # << >>
    THEN IF NeedsPremium(r.rows[1], id)
         THEN [pc |-> "premium", local |-> [loc EXCEPT !.clusterInfo = r.rows]]
         ELSE FoundStep([loc EXCEPT !.clusterInfo = r.rows],
                        ClusterResult(r.rows[1], r.rows[1].ClusterName, id))
    ELSE [pc |-> "getTenant", local |-> loc]

\* lines 445-465: after getPremiumClusterNamesByParentID
AfterPremium(loc, premium, id) ==
    FoundStep(loc, ClusterResult(loc.clusterInfo[1],
                       PremiumClusterName(loc.clusterInfo[1].ClusterName, premium, id),
                       id))

\* a bug: a failed query ends the chain as a miss
AfterGetTenant_ErrorEnds(loc, r, id) ==
    IF r.err
    THEN [pc |-> "lock",
          local |-> [loc EXCEPT !.result = SelfInfo(id), !.notFound = TRUE]]
    ELSE IF r.rows # << >>
    THEN FoundStep(loc, NameInfo("tenant", id, r.rows[1].TenantName, Empty, Empty))
    ELSE [pc |-> "getTenantName", local |-> loc]

\* lines 479-485: after getTenant
AfterGetTenant(loc, r, id) ==
    IF ~r.err /\ r.rows # << >>
    THEN FoundStep(loc, NameInfo("tenant", id, r.rows[1].TenantName, Empty, Empty))
    ELSE [pc |-> "getTenantName", local |-> loc]

\* lines 499-505: after getTenantName
AfterGetTenantName(loc, r, id) ==
    IF ~r.err /\ r.rows[1] # Empty
    THEN FoundStep(loc, NameInfo("tenant", id, r.rows[1], Empty, Empty))
    ELSE [pc |-> "getClusterName", local |-> loc]

\* lines 518-524 and 537-543: after getClusterName; when it yields nothing
\* either, the record {id, name: id} is stored as a miss
AfterGetClusterName(loc, r, id) ==
    IF ~r.err /\ r.rows[1] # Empty
    THEN FoundStep(loc, NameInfo("cluster", id, r.rows[1], Empty, Empty))
    ELSE [pc |-> "lock",
          local |-> [loc EXCEPT !.result = SelfInfo(id), !.notFound = TRUE]]

\* a query step of Resolve: the query is issued, and the call moves on
QueryStep(c, query, after) ==
    /\ queries' = [queries EXCEPT ![c] = Append(@, query)]
    /\ pc' = [pc EXCEPT ![c] = after.pc]
    /\ local' = [local EXCEPT ![c] = after.local]
    /\ UNCHANGED <<now, booted, TiDB, connected, tables, missLogger, stalled, stale, cache,
                   readers, writer, call, logged, ret>>

ResolveGetCluster(c) ==
    /\ pc[c] = "getCluster"
    /\ QueryStep(c, "getCluster",
           AfterGetCluster(local[c], getCluster(tables, connected, call[c].id), call[c].id))

\* line 445, the caller having read the first rows of the result set
ResolvePremiumRead(c, read) ==
    /\ pc[c] = "premium"
    /\ QueryStep(c, "getPremiumClusterNamesByParentID",
           AfterPremium(local[c],
               getPremiumClusterNamesByParentID(tables, connected, call[c].id, read),
               call[c].id))

\* the query answers in full, or fails
ResolvePremium(c) ==
    ResolvePremiumRead(c, Len(PremiumNames(tables, call[c].id)))

\* the connection that streams the result fails before the last row is
\* read: the names read so far are taken for the result
ResolvePremiumCutShort(c) ==
    /\ connected
    /\ \E read \in 0 .. (Len(PremiumNames(tables, call[c].id)) - 1) :
           ResolvePremiumRead(c, read)

ResolveGetTenant(c) ==
    /\ pc[c] = "getTenant"
    /\ QueryStep(c, "getTenant",
           AfterGetTenant(local[c], getTenant(tables, connected, call[c].id), call[c].id))

ResolveGetTenantName(c) ==
    /\ pc[c] = "getTenantName"
    /\ QueryStep(c, "getTenantName",
           AfterGetTenantName(local[c], getTenantName(tables, connected, call[c].id),
                              call[c].id))

ResolveGetClusterName(c) ==
    /\ pc[c] = "getClusterName"
    /\ QueryStep(c, "getClusterName",
           AfterGetClusterName(local[c], getClusterName(tables, connected, call[c].id),
                               call[c].id))

\* lines 468, 488, 507, 526, 538: nr.cacheMutex.Lock()
ResolveLock(c) ==
    /\ pc[c] = "lock"
    /\ writer = {}
    /\ readers = {}
    /\ writer' = {c}
    /\ pc' = [pc EXCEPT ![c] = "store"]
    /\ UNCHANGED <<now, booted, TiDB, connected, tables, missLogger, stalled, stale, cache,
                   readers, call, local, queries, logged, ret>>

\* lines 469-476 (and 489-496, 508-515, 527-534), 539-544: the entry is
\* stored with the time of the store and the lock released; a found record is
\* returned, a miss goes on to be logged
\* a bug: a miss is stored without its notFound flag
StoredEntry_Positive(result, notFound, t) == cacheEntry(result, FALSE, t)

StoredEntry(result, notFound, t) == cacheEntry(result, notFound, t)

\* a variant: a miss is not stored over a valid positive entry
ResolveStore_KeepsPositive(c) ==
    /\ pc[c] = "store"
    /\ cache' = IF /\ local[c].notFound
                   /\ LookupHit(cache, call[c].id, now)
                   /\ ~cache[call[c].id].notFound
                THEN cache
                ELSE Put(cache, call[c].id,
                         StoredEntry(local[c].result, local[c].notFound, now))
    /\ writer' = {}
    /\ IF local[c].notFound
       THEN /\ pc' = [pc EXCEPT ![c] = "logMiss"]
            /\ UNCHANGED ret
       ELSE /\ pc' = [pc EXCEPT ![c] = "done"]
            /\ ret' = [ret EXCEPT ![c] = Ret(local[c].result, ErrNil)]
    /\ UNCHANGED <<now, booted, TiDB, connected, tables, missLogger, stalled, stale, readers,
                   call, local, queries, logged>>

ResolveStore(c) ==
    /\ pc[c] = "store"
    /\ cache' = Put(cache, call[c].id,
                    StoredEntry(local[c].result, local[c].notFound, now))
    /\ writer' = {}
    /\ IF local[c].notFound
       THEN /\ pc' = [pc EXCEPT ![c] = "logMiss"]
            /\ UNCHANGED ret
       ELSE /\ pc' = [pc EXCEPT ![c] = "done"]
            /\ ret' = [ret EXCEPT ![c] = Ret(local[c].result, ErrNil)]
    /\ UNCHANGED <<now, booted, TiDB, connected, tables, missLogger, stalled, stale, readers,
                   call, local, queries, logged>>

\* lines 546-548: the miss is logged and the call fails with "ID not found"
ResolveLogMiss(c) ==
    /\ pc[c] = "logMiss"
    /\ PrintfReturns(missLogger)
    /\ logged' = [logged EXCEPT ![c] =
            logMiss(logged[c], missLogger, call[c].id, ReasonNotFound)]
    /\ ret' = [ret EXCEPT ![c] = Ret(SelfInfo(call[c].id), ErrNotFound)]
    /\ pc' = [pc EXCEPT ![c] = "done"]
    /\ UNCHANGED <<now, booted, TiDB, connected, tables, missLogger, stalled, stale, cache,
                   readers, writer, call, local, queries>>

(***************************************************************************)
(* GetCacheStats, ClearCache, CleanExpiredCache                            *)
(***************************************************************************)

\* the callers other than c whose Resolve has issued a query and has not
\* stored its entry yet
Queried(c) ==
    {d \in Callers \ {c} :
        /\ call[d].op = "Resolve"
        /\ queries[d] # << >>
        /\ pc[d] \in {"premium", "getTenant", "getTenantName", "getClusterName", "lock"}}

Enter(c, op) ==
    /\ CanCall(c)
    /\ stale' = IF op = "ClearCache" THEN (stale \ {c}) \cup Queried(c) ELSE stale \ {c}
    /\ call' = [call EXCEPT ![c] = [op |-> op, id |-> Empty]]
    /\ local' = [local EXCEPT ![c] = NoLocal]
    /\ queries' = [queries EXCEPT ![c] = << >>]
    /\ logged' = [logged EXCEPT ![c] = << >>]
    /\ ret' = [ret EXCEPT ![c] = NoRet]

\* line 553: nr.cacheMutex.RLock()
StatsRLock(c) ==
    /\ Enter(c, "GetCacheStats")
    /\ writer = {}
    /\ readers' = readers \cup {c}
    /\ pc' = [pc EXCEPT ![c] = "stats"]
    /\ UNCHANGED <<now, booted, TiDB, connected, tables, missLogger, stalled, cache, writer>>

\* lines 556-578, and the deferred RUnlock
StatsBody(c) ==
    /\ pc[c] = "stats"
    /\ ret' = [ret EXCEPT ![c].stats = CacheStats(cache, now)]
    /\ readers' = readers \ {c}
    /\ pc' = [pc EXCEPT ![c] = "done"]
    /\ UNCHANGED <<now, booted, TiDB, connected, tables, missLogger, stalled, stale, cache,
                   writer, call, local, queries, logged>>

\* line 583: nr.cacheMutex.Lock()
ClearLock(c) ==
    /\ Enter(c, "ClearCache")
    /\ writer = {}
    /\ readers = {}
    /\ writer' = {c}
    /\ pc' = [pc EXCEPT ![c] = "clear"]
    /\ UNCHANGED <<now, booted, TiDB, connected, tables, missLogger, stalled, cache, readers>>

\* a bug: ClearCache drops the expired entries only
ClearBody_OnlyExpired(c) ==
    /\ pc[c] = "clear"
    /\ cache' = CleanedCache(cache, now)
    /\ pc' = [pc EXCEPT ![c] = "clearLog"]
    /\ UNCHANGED <<now, booted, TiDB, connected, tables, missLogger, stalled, stale,
                   readers, writer, call, local, queries, logged, ret>>

\* line 585: nr.cache = make(map[string]*CachedNameInfo); the lock stays held
ClearBody(c) ==
    /\ pc[c] = "clear"
    /\ cache' = << >>
    /\ pc' = [pc EXCEPT ![c] = "clearLog"]
    /\ UNCHANGED <<now, booted, TiDB, connected, tables, missLogger, stalled, stale,
                   readers, writer, call, local, queries, logged, ret>>

\* line 586, and the deferred Unlock: log.Println writes to stderr with the
\* lock held, and the lock is released when it has returned
ClearLog(c) ==
    /\ pc[c] = "clearLog"
    /\ PrintfReturns(StdLogger)
    /\ writer' = {}
    /\ pc' = [pc EXCEPT ![c] = "done"]
    /\ UNCHANGED <<now, booted, TiDB, connected, tables, missLogger, stalled, stale, cache,
                   readers, call, local, queries, logged, ret>>

\* line 591: nr.cacheMutex.Lock()
CleanLock(c) ==
    /\ Enter(c, "CleanExpiredCache")
    /\ writer = {}
    /\ readers = {}
    /\ writer' = {c}
    /\ pc' = [pc EXCEPT ![c] = "clean"]
    /\ UNCHANGED <<now, booted, TiDB, connected, tables, missLogger, stalled, cache, readers>>

\* lines 594-601: the loop deletes the entries that are not valid at
\* time.Now() and counts them; when none was removed the function returns
\* the count (line 604) and the deferred Unlock runs, otherwise the lock
\* stays held for line 602
CleanBody(c) ==
    /\ pc[c] = "clean"
    /\ cache' = CleanedCache(cache, now)
    /\ ret' = [ret EXCEPT ![c].count = CleanedCount(cache, now)]
    /\ IF CleanedCount(cache, now) > 0
       THEN /\ pc' = [pc EXCEPT ![c] = "cleanLog"]
            /\ writer' = writer
       ELSE /\ pc' = [pc EXCEPT ![c] = "done"]
            /\ writer' = {}
    /\ UNCHANGED <<now, booted, TiDB, connected, tables, missLogger, stalled, stale, readers,
                   call, local, queries, logged>>

\* lines 602-604, and the deferred Unlock: log.Printf writes to stderr with
\* the lock held; the count returned is the one of the loop
CleanLog(c) ==
    /\ pc[c] = "cleanLog"
    /\ PrintfReturns(StdLogger)
    /\ writer' = {}
    /\ pc' = [pc EXCEPT ![c] = "done"]
    /\ UNCHANGED <<now, booted, TiDB, connected, tables, missLogger, stalled, stale, cache,
                   readers, call, local, queries, logged, ret>>

(***************************************************************************)
(* Specifications                                                          *)
(***************************************************************************)

Next ==
    \/ Tick
    \/ InitTiDB
    \/ ConnectionLost
    \/ ConnectionRestored
    \/ BackendInsert
    \/ SinkStalls
    \/ SinkRecovers
    \/ \E c \in Callers : ResolvePremiumCutShort(c)
    \/ \E c \in Callers, i \in InputIds : ResolveEnter(c, i)
    \/ \E c \in Callers : ResolveRLock(c)
    \/ \E c \in Callers : ResolveLookup(c)
    \/ \E c \in Callers : ResolveCheckDB(c)
    \/ \E c \in Callers : ResolveGetCluster(c)
    \/ \E c \in Callers : ResolvePremium(c)
    \/ \E c \in Callers : ResolveGetTenant(c)
    \/ \E c \in Callers : ResolveGetTenantName(c)
    \/ \E c \in Callers : ResolveGetClusterName(c)
    \/ \E c \in Callers : ResolveLock(c)
    \/ \E c \in Callers : ResolveStore(c)
    \/ \E c \in Callers : ResolveLogMiss(c)
    \/ \E c \in Callers : StatsRLock(c)
    \/ \E c \in Callers : StatsBody(c)
    \/ \E c \in Callers : ClearLock(c)
    \/ \E c \in Callers : ClearBody(c)
    \/ \E c \in Callers : ClearLog(c)
    \/ \E c \in Callers : CleanLock(c)
    \/ \E c \in Callers : CleanBody(c)
    \/ \E c \in Callers : CleanLog(c)

\* a single caller
Spec == Init /\ [][Next]_vars

\* the steps of the resolver's operations, by any caller, every result set
\* read to its end
Operation ==
    \/ \E c \in Callers, i \in NumericIds : ResolveEnter(c, i)
    \/ \E c \in Callers : ResolveRLock(c)
    \/ \E c \in Callers : ResolveLookup(c)
    \/ \E c \in Callers : ResolveCheckDB(c)
    \/ \E c \in Callers : ResolveGetCluster(c)
    \/ \E c \in Callers : ResolvePremium(c)
    \/ \E c \in Callers : ResolveGetTenant(c)
    \/ \E c \in Callers : ResolveGetTenantName(c)
    \/ \E c \in Callers : ResolveGetClusterName(c)
    \/ \E c \in Callers : ResolveLock(c)
    \/ \E c \in Callers : ResolveStore(c)
    \/ \E c \in Callers : ResolveLogMiss(c)
    \/ \E c \in Callers : StatsRLock(c)
    \/ \E c \in Callers : StatsBody(c)
    \/ \E c \in Callers : ClearLock(c)
    \/ \E c \in Callers : ClearBody(c)
    \/ \E c \in Callers : ClearLog(c)
    \/ \E c \in Callers : CleanLock(c)
    \/ \E c \in Callers : CleanBody(c)
    \/ \E c \in Callers : CleanLog(c)

\* concurrent callers of numeric identifiers, while the content of the
\* backend changes; the server answers, or does not, as it did at start-up,
\* the stream of a result set can fail, and the log sinks take every write
ConcNext ==
    \/ Tick
    \/ InitTiDB
    \/ BackendInsert
    \/ \E c \in Callers : ResolvePremiumCutShort(c)
    \/ Operation

ConcSpec == ConcInit /\ [][ConcNext]_vars

\* concurrent callers over a backend that does not change: its content
\* stays as it is and each of its queries answers as the one before
RaceNext ==
    \/ Tick
    \/ InitTiDB
    \/ Operation

RaceSpec == ConcInit /\ [][RaceNext]_vars


(***************************************************************************)
(* Properties                                                              *)
(***************************************************************************)

\* the step is one of caller c's own
StepOf(c) ==
    \/ pc'[c] # pc[c]
    \/ call'[c] # call[c]
    \/ local'[c] # local[c]
    \/ queries'[c] # queries[c]
    \/ logged'[c] # logged[c]
    \/ ret'[c] # ret[c]

\* caller c is in, or has returned from, Resolve of a numeric id
InResolve(c) == call[c].op = "Resolve" /\ isNumeric(call[c].id)

\* the age of the entry of id, and the lifetime of its class
Age(id) == now - cache[id].timestamp
Lifetime(id) == IF cache[id].notFound THEN notFoundTTL ELSE cacheTTL

\* the step in which caller c, holding the read lock, looks its id up
LookupStep(c) == pc[c] = "lookup" /\ pc'[c] # "lookup"

\* C1: a Resolve of a numeric id that has a positive entry younger than
\* cacheTTL returns the stored record with no error, has issued no backend
\* query and appended no audit record, and leaves the cache as it was,
\* whatever the state of the backend.
C1_PositiveHit ==
    [][\A c \in Callers :
          (/\ LookupStep(c)
           /\ call[c].id \in DOMAIN cache
           /\ ~cache[call[c].id].notFound
           /\ Age(call[c].id) < cacheTTL)
          => /\ pc'[c] = "done"
             /\ ret'[c] = Ret(cache[call[c].id].info, ErrNil)
             /\ queries'[c] = << >>
             /\ logged'[c] = << >>
             /\ cache' = cache]_vars

\* C1 witness: a call answered from a positive entry while the backend does
\* not answer, some hours after the entry was stored
C1_Witness ==
    \E c \in Callers :
        /\ InResolve(c) /\ pc[c] = "done"
        /\ call[c].id \in DOMAIN cache
        /\ ~cache[call[c].id].notFound
        /\ Age(call[c].id) > 0 /\ Age(call[c].id) < cacheTTL
        /\ ret[c] = Ret(cache[call[c].id].info, ErrNil)
        /\ queries[c] = << >>
        /\ ~connected

\* C2: a Resolve of a numeric id that has a negative entry younger than
\* notFoundTTL fails with the cached-miss error, which is not the error of a
\* fresh miss, returns {id, name: id}, has issued no backend query, and leaves
\* the cache as it was.
C2_NegativeHit ==
    [][\A c \in Callers :
          (/\ LookupStep(c)
           /\ call[c].id \in DOMAIN cache
           /\ cache[call[c].id].notFound
           /\ Age(call[c].id) < notFoundTTL)
          => /\ pc'[c] = "done"
             /\ ret'[c].err = ErrNotFoundCached
             /\ ret'[c].err # ErrNotFound
             /\ ret'[c].info = SelfInfo(call[c].id)
             /\ queries'[c] = << >>
             /\ logged'[c] = << >>
             /\ cache' = cache]_vars

\* C2 witness: a call answered from a negative entry
C2_Witness ==
    \E c \in Callers :
        /\ InResolve(c) /\ pc[c] = "done"
        /\ call[c].id \in DOMAIN cache
        /\ cache[call[c].id].notFound
        /\ Age(call[c].id) < notFoundTTL
        /\ ret[c] = Ret(SelfInfo(call[c].id), ErrNotFoundCached)
        /\ queries[c] = << >>


\* the step in which caller c checks db.TiDB
CheckDBStep(c) == pc[c] = "checkDB" /\ pc'[c] # "checkDB"

\* the step in which caller c, holding the write lock, stores its entry
StoreStep(c) == pc[c] = "store" /\ pc'[c] # "store"

\* the cache differs from m in the entry of id at most
SameBut(m, id) ==
    /\ DOMAIN cache' = (DOMAIN m) \cup {id}
    /\ \A k \in (DOMAIN m) \ {id} : cache'[k] = m[k]

\* the backend is not configured (no handle) or its server does not answer
BackendUnavailable == TiDB = "nil" \/ ~connected

\* C3: when the backend is unavailable, not configured or not connected, a
\* Resolve of a numeric id without a valid entry fails with the
\* backend-unavailable error and {id, name: id}, appends one audit record with
\* the backend-unavailable reason, and creates or changes no cache entry.
C3_UnavailableFails ==
    [][\A c \in Callers :
          (CheckDBStep(c) /\ BackendUnavailable)
          => /\ pc'[c] = "done"
             /\ ret'[c] = Ret(SelfInfo(call[c].id), ErrBackendUnavailable)
             /\ logged'[c] = << [id |-> call[c].id,
                                 reason |-> ReasonBackendUnavailable,
                                 sink |-> missLogger] >>
             /\ cache' = cache]_vars

\* C4: a found record is stored with the time of the store; a later Resolve
\* of its id before that time plus cacheTTL returns the same record without a
\* query and without touching the entry (its timestamp included); a Resolve
\* at or after that time plus cacheTTL goes on to the backend, and its first
\* query is getCluster.
C4_PositiveLifetime ==
    [][\A c \in Callers :
          /\ (StoreStep(c) /\ ~local[c].notFound)
             => /\ cache'[call[c].id] = cacheEntry(local[c].result, FALSE, now)
                /\ ret'[c] = Ret(local[c].result, ErrNil)
          /\ (LookupStep(c) /\ call[c].id \in DOMAIN cache /\ ~cache[call[c].id].notFound)
             => IF now < cache[call[c].id].timestamp + cacheTTL
                THEN /\ pc'[c] = "done"
                     /\ ret'[c] = Ret(cache[call[c].id].info, ErrNil)
                     /\ queries'[c] = << >>
                     /\ cache' = cache
                ELSE /\ pc'[c] = "checkDB"
                     /\ cache' = cache
          /\ (CheckDBStep(c) /\ call[c].id \in DOMAIN cache /\ ~cache[call[c].id].notFound)
             => pc'[c] = "getCluster"
          /\ (pc[c] = "getCluster" /\ pc'[c] # "getCluster")
             => queries'[c] = << "getCluster" >>]_vars

\* C4 witness: a call queries the backend again for an id whose positive
\* entry, still stored, has reached cacheTTL
C4_Witness ==
    \E c \in Callers :
        /\ InResolve(c)
        /\ call[c].id \in DOMAIN cache
        /\ ~cache[call[c].id].notFound
        /\ Age(call[c].id) >= cacheTTL
        /\ pc[c] \in {"premium", "getTenant", "lock"}
        /\ queries[c] # << >>

\* C5: a miss is stored with the time of the store; a later Resolve of its id
\* before that time plus notFoundTTL fails with the cached-miss error without
\* a query; once notFoundTTL has run out, whatever is left of cacheTTL, the
\* call goes on to the backend, and a record it finds there replaces the
\* negative entry and is returned.
C5_NegativeLifetime ==
    [][\A c \in Callers :
          /\ (StoreStep(c) /\ local[c].notFound)
             => cache'[call[c].id] = cacheEntry(SelfInfo(call[c].id), TRUE, now)
          /\ (LookupStep(c) /\ call[c].id \in DOMAIN cache /\ cache[call[c].id].notFound)
             => IF now < cache[call[c].id].timestamp + notFoundTTL
                THEN /\ pc'[c] = "done"
                     /\ ret'[c] = Ret(SelfInfo(call[c].id), ErrNotFoundCached)
                     /\ queries'[c] = << >>
                     /\ cache' = cache
                ELSE /\ pc'[c] = "checkDB"
                     /\ cache' = cache
          /\ (CheckDBStep(c) /\ call[c].id \in DOMAIN cache /\ cache[call[c].id].notFound)
             => pc'[c] = "getCluster"
          /\ (/\ StoreStep(c) /\ ~local[c].notFound
              /\ call[c].id \in DOMAIN cache /\ cache[call[c].id].notFound)
             => /\ ~cache'[call[c].id].notFound
                /\ cache'[call[c].id].info = local[c].result
                /\ ret'[c] = Ret(local[c].result, ErrNil)]_vars

\* C5 witness: a call that found the negative entry of its id older than
\* notFoundTTL, but younger than cacheTTL, has found a tenant created after
\* the miss and is about to replace the entry
C5_Witness ==
    \E c \in Callers :
        /\ InResolve(c) /\ pc[c] = "store"
        /\ call[c].id \in DOMAIN cache
        /\ cache[call[c].id].notFound
        /\ Age(call[c].id) >= notFoundTTL /\ Age(call[c].id) < cacheTTL
        /\ call[c].id \notin DOMAIN Fixture2.tenants
        /\ tables.clusters = Fixture2.clusters
        /\ local[c].result = NameInfo("tenant", call[c].id, NameT, Empty, Empty)
        /\ ~local[c].notFound

\* the backend has no usable cluster name for id, or does not answer
NoClusterName(id) ==
    \/ ~connected
    \/ id \notin DOMAIN tables.clusters
    \/ tables.clusters[id].cluster_name = Empty

AllFourQueries == << "getCluster", "getTenant", "getTenantName", "getClusterName" >>

\* C6: when the last step of the fallback chain yields nothing either, the
\* call stores the negative entry {id, name: id} with the time of the store
\* in place of any entry of the id, leaving the others, and only then appends
\* the audit record with the not-found reason and fails with the fresh-miss
\* error and {id, name: id}.
C6_DefinitiveMiss ==
    [][\A c \in Callers :
          /\ (/\ pc[c] = "getClusterName" /\ pc'[c] # "getClusterName"
              /\ NoClusterName(call[c].id))
             => /\ pc'[c] = "lock"
                /\ local'[c].notFound
                /\ queries'[c] = AllFourQueries
          /\ (StoreStep(c) /\ local[c].notFound)
             => /\ cache'[call[c].id] = cacheEntry(SelfInfo(call[c].id), TRUE, now)
                /\ SameBut(cache, call[c].id)
                /\ pc'[c] = "logMiss"
                /\ logged'[c] = << >>
          /\ (pc[c] = "logMiss" /\ pc'[c] # "logMiss")
             => /\ call[c].id \in DOMAIN cache
                /\ cache[call[c].id].notFound
                /\ cache[call[c].id].info = SelfInfo(call[c].id)
                /\ cache' = cache
                /\ logged'[c] = << [id |-> call[c].id, reason |-> ReasonNotFound,
                                    sink |-> missLogger] >>
                /\ ret'[c] = Ret(SelfInfo(call[c].id), ErrNotFound)
                /\ pc'[c] = "done"]_vars

\* C6 witness: a call for an id the answering backend does not know has
\* failed as a fresh miss, with the negative entry stored and the miss logged
C6_Witness ==
    \E c \in Callers :
        /\ InResolve(c) /\ pc[c] = "done"
        /\ connected
        /\ call[c].id \notin (DOMAIN tables.clusters) \cup (DOMAIN tables.tenants)
        /\ ret[c] = Ret(SelfInfo(call[c].id), ErrNotFound)
        /\ queries[c] = AllFourQueries
        /\ Len(logged[c]) = 1
        /\ cache[call[c].id] = cacheEntry(SelfInfo(call[c].id), TRUE, now)


\* the sequences of queries one Resolve can have issued: the chain in its
\* order, cut at any point
ChainPrefixes ==
    { << >>,
      << "getCluster" >>,
      << "getCluster", "getPremiumClusterNamesByParentID" >>,
      << "getCluster", "getTenant" >>,
      << "getCluster", "getTenant", "getTenantName" >>,
      AllFourQueries }

\* the step in which caller c issues the query it is at
QueryAt(c, at) == pc[c] = at /\ pc'[c] # at

\* the record of id is about to be stored as found, with the given kind
FoundNext(c, type) ==
    /\ pc'[c] = "lock"
    /\ ~local'[c].notFound
    /\ local'[c].result.Type = type
    /\ local'[c].result.ID = call[c].id

\* C7, as stated: the chain stops at the first step that yields a record, so
\* that an id that has a cluster record and a tenant record always resolves
\* with kind cluster, and no tenant query is issued for it.
C7_ClusterAlwaysWins ==
    \A c \in Callers :
        (/\ InResolve(c) /\ pc[c] = "done" /\ ret[c].err = ErrNil
         /\ call[c].id \in (DOMAIN tables.clusters) \cap (DOMAIN tables.tenants))
        => /\ ret[c].info.Type = "cluster"
           /\ \A i \in 1 .. Len(queries[c]) : queries[c][i] # "getTenant"

\* C7, amended: the queries of a Resolve are issued in the order getCluster,
\* getTenant, getTenantName, getClusterName; a step whose query answers with
\* a record ends the chain, so that a call whose getCluster found the cluster
\* record has issued no tenant query and resolves with kind cluster (an id
\* whose getCluster query fails goes on to the tenant steps, cluster record or
\* not); the record found is stored as one positive entry, the other entries
\* left alone, and returned with no error.
C7_FallbackOrder ==
    [][\A c \in Callers :
          /\ queries'[c] \in ChainPrefixes
          /\ (local'[c].clusterInfo # << >>)
             => /\ queries'[c] \in { << "getCluster" >>,
                                     << "getCluster", "getPremiumClusterNamesByParentID" >> }
                /\ (pc'[c] # "premium" => local'[c].result.Type = "cluster")
          /\ (/\ QueryAt(c, "getCluster") /\ connected
              /\ call[c].id \in DOMAIN tables.clusters)
             => /\ pc'[c] \in {"premium", "lock"}
                /\ (pc'[c] = "lock" => FoundNext(c, "cluster"))
          /\ (/\ QueryAt(c, "getTenant") /\ connected
              /\ call[c].id \in DOMAIN tables.tenants)
             => FoundNext(c, "tenant")
          /\ (/\ QueryAt(c, "getTenantName") /\ connected
              /\ call[c].id \in DOMAIN tables.tenants
              /\ tables.tenants[call[c].id].tenant_name # Empty)
             => FoundNext(c, "tenant")
          /\ (QueryAt(c, "getClusterName") /\ ~NoClusterName(call[c].id))
             => FoundNext(c, "cluster")
          /\ QueryAt(c, "premium") => FoundNext(c, "cluster")
          /\ (StoreStep(c) /\ ~local[c].notFound)
             => /\ SameBut(cache, call[c].id)
                /\ cache'[call[c].id] = cacheEntry(local[c].result, FALSE, now)
                /\ ret'[c] = Ret(local[c].result, ErrNil)
                /\ pc'[c] = "done"]_vars

\* C7 witness: an id that is a cluster and a tenant has resolved as the
\* cluster after the one query getCluster
C7_Witness ==
    \E c \in Callers :
        /\ InResolve(c) /\ pc[c] = "done"
        /\ call[c].id \in (DOMAIN tables.clusters) \cap (DOMAIN tables.tenants)
        /\ queries[c] = << "getCluster" >>
        /\ ret[c].err = ErrNil
        /\ ret[c].info.Type = "cluster"
        /\ cache[call[c].id].info = ret[c].info

\* C8: a step whose query fails is a step that found nothing: the call goes
\* on to the next step (after the premium details: keeps the stored name)
\* without returning, logging or writing; a later step whose query yields a
\* record makes the call store and return it with no error; a call that has
\* queried returns no error, or the fresh-miss error after all four queries.
C8_QueryErrorIsNoResult ==
    [][\A c \in Callers :
          /\ (QueryAt(c, "getCluster") /\ ~connected) => pc'[c] = "getTenant"
          /\ (QueryAt(c, "getTenant") /\ ~connected) => pc'[c] = "getTenantName"
          /\ (QueryAt(c, "getTenantName") /\ ~connected) => pc'[c] = "getClusterName"
          /\ (QueryAt(c, "getClusterName") /\ ~connected)
             => /\ pc'[c] = "lock"
                /\ local'[c].notFound
                /\ local'[c].result = SelfInfo(call[c].id)
          /\ (QueryAt(c, "premium") /\ ~connected)
             => /\ FoundNext(c, "cluster")
                /\ local'[c].result.Name = local[c].clusterInfo[1].ClusterName
          /\ (\E at \in {"getCluster", "premium", "getTenant", "getTenantName",
                         "getClusterName"} : QueryAt(c, at))
             => /\ ret'[c] = ret[c]
                /\ logged'[c] = logged[c]
                /\ cache' = cache
          /\ (/\ QueryAt(c, "getTenant") /\ connected
              /\ call[c].id \in DOMAIN tables.tenants)
             => /\ FoundNext(c, "tenant")
                /\ local'[c].result.Name = tables.tenants[call[c].id].tenant_name
          /\ (StoreStep(c) /\ ~local[c].notFound)
             => /\ cache'[call[c].id].info = local[c].result
                /\ ~cache'[call[c].id].notFound
                /\ ret'[c] = Ret(local[c].result, ErrNil)
          /\ (pc'[c] = "done" /\ queries'[c] # << >>)
             => /\ ret'[c].err \in {ErrNil, ErrNotFound}
                /\ (ret'[c].err = ErrNotFound => queries'[c] = AllFourQueries)
                /\ (ret'[c].err = ErrNil => ret'[c].info.Type \in {"cluster", "tenant"})]_vars

\* C8 witness: the id is a cluster and a tenant, getCluster failed, and the
\* call has resolved it as the tenant and cached that
C8_Witness ==
    \E c \in Callers :
        /\ InResolve(c) /\ pc[c] = "done"
        /\ call[c].id \in (DOMAIN tables.clusters) \cap (DOMAIN tables.tenants)
        /\ queries[c] = << "getCluster", "getTenant" >>
        /\ ret[c] = Ret(NameInfo("tenant", call[c].id, NameT, Empty, Empty), ErrNil)
        /\ cache[call[c].id].info = ret[c].info
        /\ ~cache[call[c].id].notFound

\* the id is empty or holds a character that is no decimal digit
NonNumericInput(id) == id = Empty \/ \E i \in 1 .. Len(id) : id[i] \notin Digits

\* C9: Resolve of the empty id fails with the invalid-input error, Resolve of
\* a non-empty id with a non-digit character returns {id, name: id} with no
\* error; either returns at once, in every state, without touching the cache
\* or its lock, without a backend query and without an audit record.
C9_NonNumeric ==
    [][\A c \in Callers :
          (StepOf(c) /\ call'[c].op = "Resolve" /\ NonNumericInput(call'[c].id))
          => /\ pc'[c] = "done"
             /\ ret'[c] = IF call'[c].id = Empty
                          THEN Ret(ZeroInfo, ErrInvalidInput)
                          ELSE Ret(SelfInfo(call'[c].id), ErrNil)
             /\ queries'[c] = << >>
             /\ logged'[c] = << >>
             /\ cache' = cache
             /\ readers' = readers
             /\ writer' = writer]_vars

\* C9 witness: an id that starts with a digit and holds a letter has resolved
\* to itself, with entries in the cache and no backend handle needed
C9_Witness ==
    \E c \in Callers :
        /\ pc[c] = "done"
        /\ call[c] = [op |-> "Resolve", id |-> Id7x]
        /\ ret[c] = Ret(SelfInfo(Id7x), ErrNil)
        /\ queries[c] = << >>
        /\ cache # << >>

\* the step in which caller c, holding the write lock, sweeps the cache
CleanStep(c) == pc[c] = "clean" /\ pc'[c] # "clean"

\* the step in which caller c, having swept the cache, logs the count and
\* returns
CleanLogStep(c) == pc[c] = "cleanLog" /\ pc'[c] # "cleanLog"

\* C10, as stated: CleanExpiredCache removes exactly the entries whose age
\* exceeds the TTL of their class, and returns their number.
C10_RemovesOlderThanTTL ==
    [][\A c \in Callers :
          CleanStep(c)
          => /\ DOMAIN cache' = {k \in DOMAIN cache : ~(Age(k) > Lifetime(k))}
             /\ ret'[c].count = Cardinality({k \in DOMAIN cache : Age(k) > Lifetime(k)})]_vars

\* C10, amended: CleanExpiredCache removes exactly the entries whose age has
\* reached the TTL of their class (cacheTTL for a found record, notFoundTTL
\* for a miss), the entries that are not valid, and returns their number;
\* every younger entry is left as it was; the log line that follows a sweep
\* that removed something changes neither the cache nor the number.
C10_RemovesInvalid ==
    [][\A c \in Callers :
          /\ CleanStep(c)
             => /\ DOMAIN cache' = {k \in DOMAIN cache : Age(k) < Lifetime(k)}
                /\ \A k \in DOMAIN cache' : cache'[k] = cache[k]
                /\ ret'[c].count =
                       Cardinality({k \in DOMAIN cache : Age(k) >= Lifetime(k)})
                /\ pc'[c] = IF ret'[c].count > 0 THEN "cleanLog" ELSE "done"
          /\ CleanLogStep(c)
             => /\ cache' = cache
                /\ ret'[c] = ret[c]
                /\ pc'[c] = "done"]_vars

\* C10 witness: a sweep has removed one entry and left a positive one, a day
\* after the start
C10_Witness ==
    \E c \in Callers :
        /\ pc[c] = "done"
        /\ call[c].op = "CleanExpiredCache"
        /\ ret[c].count = 1
        /\ now = cacheTTL
        /\ \E k \in DOMAIN cache : ~cache[k].notFound /\ Age(k) < cacheTTL /\ Age(k) > 0

\* the step in which caller c, holding the read lock, counts the entries
StatsStep(c) == pc[c] = "stats" /\ pc'[c] # "stats"

\* C11: GetCacheStats puts every stored entry into exactly one of found (a
\* positive entry younger than cacheTTL), not_found (a negative entry younger
\* than notFoundTTL) and expired (an entry whose age has reached its
\* lifetime), so total = found + not_found + expired = the number of stored
\* entries; and it changes no entry.
C11_StatsClassify ==
    [][\A c \in Callers :
          StatsStep(c)
          => LET s == ret'[c].stats IN
             /\ s.total = Cardinality(DOMAIN cache)
             /\ s.found = Cardinality({k \in DOMAIN cache :
                               ~cache[k].notFound /\ Age(k) < cacheTTL})
             /\ s.not_found = Cardinality({k \in DOMAIN cache :
                               cache[k].notFound /\ Age(k) < notFoundTTL})
             /\ s.expired = Cardinality({k \in DOMAIN cache : Age(k) >= Lifetime(k)})
             /\ s.total = s.found + s.not_found + s.expired
             /\ pc'[c] = "done"
             /\ cache' = cache]_vars

\* C11 witness: with one valid positive and one valid negative entry stored
\* and nothing expired, the counters returned are found=1, not_found=1, total=2
C11_Witness ==
    \E c \in Callers :
        /\ call[c].op = "GetCacheStats" /\ pc[c] = "done"
        /\ Cardinality(DOMAIN cache) = 2
        /\ \A k \in DOMAIN cache : Age(k) < Lifetime(k)
        /\ ret[c].stats = [total |-> 2, found |-> 1, not_found |-> 1, expired |-> 0]

\* the step in which caller c, holding the write lock, empties the cache
ClearStep(c) == pc[c] = "clear" /\ pc'[c] # "clear"

\* C12: the read path removes no entry.  A Resolve that finds an entry whose
\* age has reached its lifetime goes on as if there were none and leaves the
\* cache as it is, and so does a Resolve that fails with the
\* backend-unavailable error; a stored entry goes away only in a ClearCache
\* step or, its lifetime reached, in a CleanExpiredCache step, and changes
\* only in the store step of a Resolve of its own id.
C12_ReadPathKeeps ==
    [][/\ \A c \in Callers :
            (/\ LookupStep(c)
             /\ call[c].id \in DOMAIN cache
             /\ Age(call[c].id) >= Lifetime(call[c].id))
            => /\ pc'[c] = "checkDB"
               /\ cache' = cache
       /\ \A c \in Callers :
            (CheckDBStep(c) /\ ret'[c].err = ErrBackendUnavailable) => cache' = cache
       /\ \A k \in DOMAIN cache :
            /\ k \notin DOMAIN cache'
               => \E c \in Callers :
                      \/ ClearStep(c)
                      \/ CleanStep(c) /\ Age(k) >= Lifetime(k)
            /\ (k \in DOMAIN cache' /\ cache'[k] # cache[k])
               => \E c \in Callers : StoreStep(c) /\ call[c].id = k]_vars

\* C12 witness: a Resolve has looked its id up, found an expired entry and
\* gone on to the backend, and the expired entry is still stored
C12_Witness ==
    \E c \in Callers :
        /\ InResolve(c) /\ pc[c] \in {"checkDB", "getCluster"}
        /\ call[c].id \in DOMAIN cache
        /\ Age(call[c].id) >= Lifetime(call[c].id)
        /\ CacheStats(cache, now).expired >= 1

\* the positions at which the caller holds the cache lock in exclusive mode
WriterPcs == {"store", "clear", "clearLog", "clean", "cleanLog"}

\* the positions at which a backend query of the caller is in flight
QueryPcs == {"getCluster", "premium", "getTenant", "getTenantName", "getClusterName"}

\* C13: whatever the interleaving of the callers, the cache lock is held in
\* shared mode only by callers at the map read (Resolve's lookup, the body of
\* GetCacheStats) and in exclusive mode only by a caller at the map write
\* (Resolve's store, the bodies of ClearCache and CleanExpiredCache, their
\* log lines included): a
\* caller with a backend query in flight holds it in neither mode, and
\* a Resolve waiting for the read lock while the other caller's query is in
\* flight can take it.
C13_NoLockAcrossQuery ==
    /\ readers = {c \in Callers : pc[c] \in {"lookup", "stats"}}
    /\ writer = {c \in Callers : pc[c] \in WriterPcs}
    /\ Cardinality(writer) <= 1
    /\ writer # {} => readers = {}
    /\ \A c \in Callers :
          pc[c] \in QueryPcs
          => /\ c \notin readers \cup writer
             /\ \A d \in Callers \ {c} :
                   pc[d] = "rlock" => ENABLED ResolveRLock(d)

\* C13 witness: one caller's backend query is in flight while the other
\* caller holds the read lock and finds a valid entry
C13_Witness ==
    \E c \in Callers, d \in Callers :
        /\ c # d
        /\ pc[c] \in QueryPcs
        /\ pc[d] = "lookup" /\ d \in readers
        /\ LookupHit(cache, call[d].id, now)

\* what one Resolve of id, run alone, finds in backend t: the four steps of
\* the chain in order, each taken when the one before yielded nothing
SequentialResolve(t, conn, id) ==
    LET s1 == AfterGetCluster(NoLocal, getCluster(t, conn, id), id)
        s2 == IF s1.pc = "premium"
              THEN AfterPremium(s1.local,
                       getPremiumClusterNamesByParentID(t, conn, id,
                           Len(PremiumNames(t, id))), id)
              ELSE IF s1.pc = "getTenant"
              THEN AfterGetTenant(s1.local, getTenant(t, conn, id), id)
              ELSE s1
        s3 == IF s2.pc = "getTenantName"
              THEN AfterGetTenantName(s2.local, getTenantName(t, conn, id), id)
              ELSE s2
        s4 == IF s3.pc = "getClusterName"
              THEN AfterGetClusterName(s3.local, getClusterName(t, conn, id), id)
              ELSE s3
    IN  s4.local

\* C14: over a backend that does not change, whatever the interleaving of
\* the callers, every stored entry holds the record and the notFound flag
\* that one Resolve of its id run alone would store, and every Resolve of a
\* numeric id that has returned, from the cache or from the backend, has
\* returned that record.
C14_RaceSameRecord ==
    TiDB # "nil"
    => /\ \A k \in DOMAIN cache :
             /\ cache[k].info = SequentialResolve(tables, connected, k).result
             /\ cache[k].notFound = SequentialResolve(tables, connected, k).notFound
       /\ \A c \in Callers :
             (InResolve(c) /\ pc[c] = "done")
             => ret[c].info = SequentialResolve(tables, connected, call[c].id).result

\* C14 witness: two Resolves of the same id have both missed the cache and
\* both queried the backend; one holds the write lock to store its entry
\* and the other waits for the lock to store its own
C14_Witness ==
    \E c \in Callers, d \in Callers :
        /\ c # d
        /\ InResolve(c) /\ InResolve(d)
        /\ call[c].id = call[d].id
        /\ pc[c] = "store" /\ pc[d] = "lock"
        /\ queries[c] # << >> /\ queries[d] # << >>
        /\ local[c].result = local[d].result
        /\ call[c].id \notin DOMAIN cache

\* C15: the miss logger never holds a Resolve up: a call that has reached a
\* miss, with its negative entry stored or without a TiDB handle, can always
\* take its next step, in which it appends the audit record and returns,
\* whether or not the sink of the miss logger takes the write.
C15_AuditNeverBlocks ==
    \A c \in Callers :
        /\ pc[c] = "logMiss" => ENABLED ResolveLogMiss(c)
        /\ (pc[c] = "checkDB" /\ TiDB = "nil") => ENABLED ResolveCheckDB(c)

\* the next step of caller c inside its call, whichever it is
CallStep(c) ==
    \/ ResolveRLock(c) \/ ResolveLookup(c) \/ ResolveCheckDB(c)
    \/ ResolveGetCluster(c) \/ ResolvePremium(c) \/ ResolvePremiumCutShort(c)
    \/ ResolveGetTenant(c)
    \/ ResolveGetTenantName(c) \/ ResolveGetClusterName(c)
    \/ ResolveLock(c) \/ ResolveStore(c) \/ ResolveLogMiss(c)
    \/ StatsBody(c) \/ ClearBody(c) \/ ClearLog(c) \/ CleanBody(c) \/ CleanLog(c)

\* caller c is inside a call and is not waiting for the cache lock
Running(c) == pc[c] \notin {"off", "idle", "done", "rlock", "lock"}

\* C16: no operation waits for anything but the cache lock and its own
\* backend queries, which return: a caller inside Resolve, GetCacheStats,
\* ClearCache or CleanExpiredCache that is not waiting for the lock can
\* always take its next step, and in particular a caller that holds the
\* lock can, so that the lock is always released and every call returns.
C16_NoBlockingIO ==
    \A c \in Callers :
        /\ c \in readers \cup writer => ENABLED CallStep(c)
        /\ Running(c) => ENABLED CallStep(c)

\* C17: a Resolve that has returned has appended exactly one audit record,
\* for its own id, if it failed with the not-found or the
\* backend-unavailable error, and none otherwise (an answer from the cache,
\* the cached-miss error included, a record found in the backend, a
\* non-numeric or an empty id); a call appends nothing before its last step,
\* and the other operations append nothing.
C17_AuditFreshMisses ==
    \A c \in Callers :
        /\ \A i \in 1..Len(logged[c]) : logged[c][i].id = call[c].id
        /\ (call[c].op = "Resolve" /\ pc[c] = "done")
           => Len(logged[c]) =
                 IF ret[c].err \in {ErrNotFound, ErrBackendUnavailable} THEN 1 ELSE 0
        /\ (call[c].op # "Resolve" \/ pc[c] # "done") => logged[c] = << >>

\* C17 witness: a Resolve without a TiDB handle has failed with the
\* backend-unavailable error and appended its one audit record
C17_Witness ==
    \E c \in Callers :
        /\ InResolve(c) /\ pc[c] = "done"
        /\ ret[c].err = ErrBackendUnavailable
        /\ Len(logged[c]) = 1
        /\ logged[c][1].reason = ReasonBackendUnavailable

\* s without the white space before its first and after its last character
\* that is not white space
Stripped(s) ==
    LET black == {i \in 1..Len(s) : s[i] \notin WhiteSpace}
    IN  IF black = {} THEN << >>
        ELSE SubSeq(s, CHOOSE i \in black : \A j \in black : i <= j,
                       CHOOSE i \in black : \A j \in black : i >= j)

\* the names of the premium details of parent id that have a name, the one
\* created last first
RECURSIVE NewestFirst(_, _)
NewestFirst(rows, id) ==
    IF rows = << >> THEN << >>
    ELSE LET last == rows[Len(rows)]
             older == NewestFirst(SubSeq(rows, 1, Len(rows) - 1), id)
         IN  IF last.parent_id = id /\ last.name # Empty
             THEN <<last.name>> \o older
             ELSE older

\* the usable premium names of id: stripped, and neither empty nor the id
UsableNames(id) ==
    LET names == NewestFirst(tables.premium, id)
        stripped == [i \in 1..Len(names) |-> Stripped(names[i])]
    IN  SelectSeq(stripped, LAMBDA n : n # Empty /\ n # id)

\* the names separated by a comma and a space
RECURSIVE CommaSeparated(_)
CommaSeparated(names) ==
    IF Len(names) = 1 THEN names[1]
    ELSE CommaSeparated(SubSeq(names, 1, Len(names) - 1))
             \o <<",", " ">> \o names[Len(names)]

\* C18: a Resolve that consults the premium details, for a nextgen-host
\* cluster record whose stored name is empty or its id, resolves to a
\* positive record of kind cluster whose name is the usable premium names of
\* the id (newest first, stripped of white space, those empty or equal to
\* the id dropped) joined with ", ", or the stored name when the premium
\* query fails, returns no row or leaves no usable name.
C18_PremiumName ==
    [][\A c \in Callers :
          QueryAt(c, "premium")
          => LET id == call[c].id
                 stored == local[c].clusterInfo[1].ClusterName
                 usable == IF connected THEN UsableNames(id) ELSE << >>
             IN  /\ local[c].clusterInfo[1].DeployType = "nextgen-host"
                 /\ stored \in {Empty, id}
                 /\ FoundNext(c, "cluster")
                 /\ local'[c].result.Name =
                        IF usable # << >> THEN CommaSeparated(usable) ELSE stored]_vars

\* the cluster row that getCluster finds for id, if it finds one
ClusterFound(id) == connected /\ id \in DOMAIN tables.clusters

\* C19: a Resolve goes from getCluster to the premium details if and only if
\* getCluster found a record that is nextgen-host and whose stored name is
\* empty or the id, and the premium query is issued from there only; a
\* record with a name of its own, whatever its deploy type, is the result
\* with its stored name, and no further query is issued.
C19_PremiumIff ==
    [][\A c \in Callers :
          /\ QueryAt(c, "getCluster")
             => LET id == call[c].id IN
                /\ pc'[c] = "premium"
                   <=> /\ ClusterFound(id)
                       /\ tables.clusters[id].deploy_type = "nextgen-host"
                       /\ tables.clusters[id].cluster_name \in {Empty, id}
                /\ (ClusterFound(id) /\ tables.clusters[id].cluster_name \notin {Empty, id})
                   => /\ FoundNext(c, "cluster")
                      /\ local'[c].result.Name = tables.clusters[id].cluster_name
                      /\ queries'[c] = << "getCluster" >>
          /\ (pc'[c] = "premium" /\ pc[c] # "premium") => pc[c] = "getCluster"
          /\ (/\ queries'[c] # queries[c]
              /\ queries'[c] # << >>
              /\ queries'[c][Len(queries'[c])] = "getPremiumClusterNamesByParentID")
             => pc[c] = "premium"]_vars

\* C19 witness: a nextgen-host cluster with a name of its own and with
\* premium details has resolved to its stored name by the cluster query alone
C19_Witness ==
    \E c \in Callers :
        /\ InResolve(c) /\ pc[c] = "done"
        /\ call[c].id \in DOMAIN tables.clusters
        /\ tables.clusters[call[c].id].deploy_type = "nextgen-host"
        /\ tables.clusters[call[c].id].cluster_name \notin {Empty, call[c].id}
        /\ UsableNames(call[c].id) # << >>
        /\ queries[c] = << "getCluster" >>
        /\ ret[c].err = ErrNil
        /\ ret[c].info.Name = tables.clusters[call[c].id].cluster_name

\* C20: a cluster record that getCluster finds with an empty name and a
\* deploy type other than nextgen-host is the result of the Resolve: no
\* other query is issued, the record, of kind cluster and with the empty
\* name, is stored as a positive entry and returned with no error, and no
\* audit record is appended.
C20_EmptyNameIsFound ==
    [][\A c \in Callers :
          LET id == call[c].id IN
          /\ (/\ QueryAt(c, "getCluster")
              /\ ClusterFound(id)
              /\ tables.clusters[id].cluster_name = Empty
              /\ tables.clusters[id].deploy_type # "nextgen-host")
             => /\ FoundNext(c, "cluster")
                /\ local'[c].result.Name = Empty
                /\ queries'[c] = << "getCluster" >>
          /\ (/\ StoreStep(c)
              /\ queries[c] = << "getCluster" >>
              /\ local[c].result.Name = Empty)
             => /\ cache'[id] = cacheEntry(local[c].result, FALSE, now)
                /\ Lifetime(id)' = cacheTTL
                /\ pc'[c] = "done"
                /\ ret'[c] = Ret(local[c].result, ErrNil)
                /\ ret'[c].info.Type = "cluster"
                /\ queries'[c] = << "getCluster" >>
                /\ logged'[c] = << >>]_vars

\* C20 witness: the dedicated cluster 7, which has no name, has resolved to
\* a record of kind cluster with the empty name by the cluster query alone,
\* and its positive entry is still valid after the lifetime of a miss
C20_Witness ==
    \E c \in Callers :
        /\ InResolve(c) /\ pc[c] = "done"
        /\ call[c].id \in DOMAIN tables.clusters
        /\ tables.clusters[call[c].id].deploy_type = "dedicated"
        /\ queries[c] = << "getCluster" >>
        /\ ret[c].err = ErrNil
        /\ ret[c].info.Type = "cluster" /\ ret[c].info.Name = Empty
        /\ call[c].id \in DOMAIN cache
        /\ cache[call[c].id] = cacheEntry(ret[c].info, FALSE, 0)
        /\ now >= notFoundTTL /\ LookupHit(cache, call[c].id, now)

\* the errors a call can return
CallErrors ==
    {ErrNil, ErrInvalidInput, ErrNotFoundCached, ErrBackendUnavailable, ErrNotFound}

\* C21: the resolver always has a miss logger, the one of the miss log or,
\* when the miss log could not be opened, one that writes to stderr; every
\* audit record goes to it, a Resolve that ends in a fresh miss has
\* appended its record there, and no call returns an error other than
\* those of the resolution itself.
C21_OpenFailureRecovered ==
    /\ missLogger \in {"file", "stderr"}
    /\ \A c \in Callers :
          /\ ret[c].err \in CallErrors
          /\ \A i \in 1..Len(logged[c]) : logged[c][i].sink = missLogger
          /\ (/\ call[c].op = "Resolve" /\ pc[c] = "done"
              /\ ret[c].err \in {ErrNotFound, ErrBackendUnavailable})
             => logged[c] # << >>

\* C21 witness: the miss log could not be opened, and a Resolve has stored a
\* miss, failed with the not-found error and appended its record to stderr
C21_Witness ==
    \E c \in Callers :
        /\ missLogger = "stderr"
        /\ InResolve(c) /\ pc[c] = "done"
        /\ ret[c] = Ret(SelfInfo(call[c].id), ErrNotFound)
        /\ logged[c] = << [id |-> call[c].id, reason |-> ReasonNotFound,
                           sink |-> "stderr"] >>
        /\ call[c].id \in DOMAIN cache /\ cache[call[c].id].notFound

\* the entry of key k is one that Resolve writes: its record is of k; a
\* negative entry holds {k, name: k} and nothing else, a positive one a
\* record of kind cluster or tenant
WellFormedEntry(k, e) ==
    /\ ~NonNumericInput(k)
    /\ e.info.ID = k
    /\ e.notFound => e.info = [Type |-> "", ID |-> k, Name |-> k,
                               TenantID |-> << >>, TenantName |-> << >>]
    /\ ~e.notFound => e.info.Type \in {"cluster", "tenant"}

\* C22: after every step, every key of the cache is a non-empty string of
\* decimal digits and its entry is well formed; an entry appears or changes
\* only in the store step of a Resolve of that key, which has issued its
\* backend queries and writes a whole new entry (its record, its flag and
\* the time of the store).
C22_CacheEntries ==
    [][/\ \A k \in DOMAIN cache' : WellFormedEntry(k, cache'[k])
       /\ \A k \in DOMAIN cache' :
            (k \notin DOMAIN cache \/ cache'[k] # cache[k])
            => \E c \in Callers :
                  /\ StoreStep(c)
                  /\ call[c].id = k
                  /\ queries[c] # << >>
                  /\ queries[c][1] = "getCluster"
                  /\ cache'[k] = [info |-> local[c].result,
                                  notFound |-> local[c].notFound,
                                  timestamp |-> now]]_vars

\* C22 witness: the cache holds a positive entry of kind tenant and a
\* negative entry, both under numeric keys, while a Resolve of a non-numeric
\* id has just returned
C22_Witness ==
    \E c \in Callers :
        /\ call[c].op = "Resolve" /\ pc[c] = "done"
        /\ NonNumericInput(call[c].id) /\ call[c].id # Empty
        /\ \E k \in DOMAIN cache : cache[k].notFound
        /\ \E k \in DOMAIN cache : ~cache[k].notFound /\ cache[k].info.Type = "tenant"
        /\ call[c].id \notin DOMAIN cache

\* C23, as stated: a Resolve that found no record does not store its miss
\* over a positive entry of its id that is younger than cacheTTL, so that
\* no caller is answered with the cached-miss error while that entry would
\* still be valid.
C23_NoDowngrade ==
    [][\A c \in Callers :
          (/\ StoreStep(c)
           /\ local[c].notFound
           /\ call[c].id \in DOMAIN cache
           /\ ~cache[call[c].id].notFound
           /\ Age(call[c].id) < cacheTTL)
          => cache'[call[c].id] = cache[call[c].id]]_vars

\* C23, amended: the store of a Resolve is unconditional, whatever entry its
\* id has by then: it writes the record and the flag the call found with
\* the time of the store and leaves the other entries alone, so the last
\* store wins; and a call is answered with the cached-miss error only from
\* a negative entry younger than notFoundTTL.
C23_LastWriteWins ==
    [][\A c \in Callers :
          /\ StoreStep(c)
             => /\ cache'[call[c].id] = [info |-> local[c].result,
                                         notFound |-> local[c].notFound,
                                         timestamp |-> now]
                /\ SameBut(cache, call[c].id)
          /\ (LookupStep(c) /\ ret'[c].err = ErrNotFoundCached)
             => /\ call[c].id \in DOMAIN cache
                /\ cache[call[c].id].notFound
                /\ Age(call[c].id) < notFoundTTL]_vars

\* C23 witness: one Resolve has found the tenant of its id in the backend
\* and stored it; the other, which had queried before the tenant was
\* there, has since stored its miss over that entry, less than cacheTTL
\* after the start, while the backend holds the tenant
C23_Witness ==
    \E c \in Callers, d \in Callers :
        /\ c # d
        /\ InResolve(c) /\ InResolve(d) /\ call[c].id = call[d].id
        /\ pc[d] = "done" /\ queries[d] # << >>
        /\ ret[d].err = ErrNil /\ ret[d].info.Type = "tenant"
        /\ pc[c] = "logMiss" /\ local[c].notFound
        /\ call[c].id \in DOMAIN cache /\ cache[call[c].id].notFound
        /\ connected /\ call[c].id \in DOMAIN tables.tenants
        /\ now < cacheTTL

\* C24, as stated: ClearCache discards the work in flight as well: no
\* Resolve that had issued a backend query when ClearCache was called
\* stores an entry afterwards, so that after a ClearCache the cache holds
\* no value obtained from a query older than it.
C24_ClearDiscardsInFlight ==
    [][\A d \in Callers : StoreStep(d) => d \notin stale]_vars

\* C24, amended: ClearCache empties the map and touches nothing else: the
\* calls in flight keep their position, their locals and the queries they
\* have issued, and a Resolve that had issued a query when ClearCache was
\* called stores the record it found all the same; a Resolve that looks
\* its id up and finds no entry goes on to the backend.
C24_ClearEmptiesMapOnly ==
    [][\A c \in Callers :
          /\ ClearStep(c)
             => /\ cache' = << >>
                /\ \A d \in Callers \ {c} :
                      /\ pc'[d] = pc[d]
                      /\ local'[d] = local[d]
                      /\ queries'[d] = queries[d]
          /\ (StoreStep(c) /\ c \in stale)
             => /\ call[c].id \in DOMAIN cache'
                /\ cache'[call[c].id].info = local[c].result
                /\ cache'[call[c].id].notFound = local[c].notFound
          /\ (LookupStep(c) /\ call[c].id \notin DOMAIN cache)
             => /\ pc'[c] = "checkDB"
                /\ ret'[c] = ret[c]]_vars

\* C24 witness: a Resolve had queried the backend when the other caller
\* called ClearCache; ClearCache has returned, the Resolve has stored the
\* record it had found and returned it, and the entry is in the cache
C24_Witness ==
    \E c \in Callers, d \in Callers :
        /\ c # d
        /\ call[c].op = "ClearCache" /\ pc[c] = "done"
        /\ d \in stale
        /\ InResolve(d) /\ pc[d] = "done"
        /\ queries[d] # << >> /\ ret[d].err = ErrNil
        /\ call[d].id \in DOMAIN cache
        /\ cache[call[d].id].info = ret[d].info

============================================================================
